---- MODULE Spec2Model ----
(***************************************************************************)
(* A model of src/bot.py: the SellAuth API client (api_request and the     *)
(* query / mutation coroutines built on it), the five slash commands and   *)
(* the restock flow (StockPanel -> ProductSelect -> VariantSelect ->       *)
(* RestockModal).                                                          *)
(*                                                                         *)
(* JSON values are tagged tuples: <<"none">>, <<"num", n>>, <<"str", s>>,  *)
(* <<"list", seq>>, <<"dict", seq of <<key, value>> >>.  A Python          *)
(* expression evaluates to <<"ok", value>> or to <<"raise", exception>>.   *)
(* Texts typed into the modal are sequences of one-character strings.      *)
(***************************************************************************)
EXTENDS Integers, Sequences, FiniteSets, TLC

(* ---------------- bounds ---------------- *)
\* longest text typed into the restock modal (SpecLines)
MaxLen == 3
\* restock flows (presses of the Restock button) followed in SpecFlow
MaxFlows == 2

(* ---------------- ENV (src/bot.py 10-12) ---------------- *)
API_KEY == "SELLAUTH_API_KEY"
SHOP_ID == "SELLAUTH_SHOP_ID"

(* ---------------- JSON values ---------------- *)
JNone == <<"none">>
JNum(n) == <<"num", n>>
JStr(s) == <<"str", s>>
JList(xs) == <<"list", xs>>
JDict(kvs) == <<"dict", kvs>>

Ok(v) == <<"ok", v>>
Raise(e) == <<"raise", e>>
IsOk(r) == r[1] = "ok"
IsRaise(r) == r[1] = "raise"

IsDict(j) == j[1] = "dict"
IsList(j) == j[1] = "list"

\* Python truthiness: None, 0, "", [] and {} are falsy
Truthy(j) ==
    CASE j[1] = "none" -> FALSE
      [] j[1] = "num" -> j[2] # 0
      [] j[1] = "str" -> j[2] # ""
      [] j[1] = "list" -> Len(j[2]) > 0
      [] j[1] = "dict" -> Len(j[2]) > 0

HasKey(j, key) == \E i \in 1..Len(j[2]) : j[2][i][1] = key

Lookup(j, key) == j[2][CHOOSE i \in 1..Len(j[2]) : j[2][i][1] = key][2]

\* j.get(key, default): AttributeError unless j is a dict
DictGet(j, key, default) ==
    IF ~IsDict(j) THEN Raise("AttributeError")
    ELSE IF HasKey(j, key) THEN Ok(Lookup(j, key))
    ELSE Ok(default)

\* j[key] with a string key: TypeError unless j is a dict, KeyError if missing
Subscript(j, key) ==
    IF ~IsDict(j) THEN Raise("TypeError")
    ELSE IF HasKey(j, key) THEN Ok(Lookup(j, key))
    ELSE Raise("KeyError")

\* str(j) / f"{j}"
Str(j) ==
    CASE j[1] = "none" -> "None"
      [] j[1] = "num" -> <<"0", "1", "2", "3", "4", "5", "6", "7", "8", "9">>[j[2] + 1]
      [] j[1] = "str" -> j[2]
      [] j[1] = "list" -> "[...]"
      [] j[1] = "dict" -> "{...}"

\* what `for x in j` iterates over: TypeError for None and numbers
Iter(j) ==
    CASE j[1] = "list" -> Ok(j[2])
      [] j[1] = "dict" -> Ok([i \in 1..Len(j[2]) |-> JStr(j[2][i][1])])
      [] j[1] = "str" -> Ok(IF j[2] = "" THEN <<>> ELSE <<JStr(j[2])>>)
      [] OTHER -> Raise("TypeError")

(* ---------------- SELLAUTH API ---------------- *)
headers == <<"Authorization", <<"Bearer", API_KEY>>>>

Base == <<"https://api.sellauth.com/v1/shops", SHOP_ID>>

Request(method, url, body) ==
    [method |-> method, url |-> url, headers |-> headers, json |-> body]

\* What the wire gives back to one request: the connection fails, or a status
\* comes with a payload that is JSON text or is not.
TransportError == <<"error">>
NonJson == <<"nonjson">>
Reply(status, payload) == <<"reply", status, payload>>

\* r.json(content_type=None) inside try/except: a payload that does not parse
\* becomes None
ParseJson(payload) == IF payload = NonJson THEN JNone ELSE payload

\* api_request: (status, js), or the aiohttp exception of s.request, which is
\* outside the try
api_request(resp) ==
    IF resp = TransportError THEN Raise("ClientError")
    ELSE Ok(<<resp[2], ParseJson(resp[3])>>)


(* ---------------- what the API may answer ---------------- *)
Keys(n) == [i \in 1..n |-> JStr("KEY")]

Variant(id, name) == JDict(<< <<"id", JNum(id)>>, <<"name", JStr(name)>> >>)

Product(id, name, variants) ==
    JDict(<< <<"id", JNum(id)>>, <<"name", JStr(name)>>, <<"variants", JList(variants)>> >>)

Alpha == Product(1, "Alpha", <<Variant(7, "Week"), Variant(8, "Month"), Variant(9, "Year")>>)
Beta == Product(2, "Beta", <<Variant(5, "Basic"), Variant(6, "Pro")>>)

OrderRecord ==
    JDict(<< <<"email", JStr("a@b.c")>>, <<"total_price", JNum(5)>>,
             <<"status", JStr("completed")>>, <<"product_name", JStr("Alpha")>>,
             <<"deliverables", JList(Keys(2))>> >>)

Payloads ==
    { NonJson,
      JStr("Unauthorized"),
      JDict(<<>>),
      JDict(<< <<"message", JStr("Not Found")>> >>),
      JDict(<< <<"data", JNone>> >>),
      JDict(<< <<"data", OrderRecord>> >>),
      JDict(<< <<"data", JList(<<Alpha, Beta>>)>> >>),
      JDict(<< <<"data", Alpha>> >>),
      JDict(<< <<"data", Beta>> >>),
      JList(<<>>),
      JList(Keys(3)),
      JList(Keys(5)) }

Statuses == {200, 404}

Responses == {TransportError} \cup {Reply(st, p) : st \in Statuses, p \in Payloads}

(* ---------------- query and mutation operations ---------------- *)
get_invoice_url(invoice_id) == Base \o <<"orders", invoice_id>>

get_invoice_ret(status, js) ==
    IF status # 200 \/ ~Truthy(js) THEN Ok(JNone) ELSE DictGet(js, "data", JNone)

get_order_url(order_id) == Base \o <<"orders", order_id>>

get_order_ret(status, js) ==
    IF Truthy(js) THEN DictGet(js, "data", JNone) ELSE Ok(JNone)

list_products_url == Base \o <<"products">>

list_products_ret(status, js) ==
    IF IsDict(js) THEN DictGet(js, "data", JList(<<>>)) ELSE Ok(JList(<<>>))

get_variants_url(pid) == Base \o <<"products", pid>>

get_variants_ret(status, js) ==
    LET data == DictGet(js, "data", JDict(<<>>))
    IN  IF IsRaise(data) THEN data ELSE DictGet(data[2], "variants", JList(<<>>))

append_stock_url(pid, vid) == Base \o <<"products", pid, "deliverables", "append", vid>>

\* append_stock sending POST
append_stock_request_post(pid, vid, items) ==
    Request("POST", append_stock_url(pid, vid),
            JDict(<< <<"deliverables", JList([i \in 1..Len(items) |-> JStr(items[i])])>> >>))

append_stock_request(pid, vid, items) ==
    Request("PUT", append_stock_url(pid, vid),
            JDict(<< <<"deliverables", JList([i \in 1..Len(items) |-> JStr(items[i])])>> >>))

get_stock_url(pid, vid) == Base \o <<"products", pid, "deliverables", vid>>

\* one pass of the body of quick_stock's loop: what the variant adds to total
StockCount(status, js) == IF Truthy(js) /\ IsList(js) THEN Len(js[2]) ELSE 0

\* the value an operation returns for the answer resp
OpReturn(op, resp) ==
    LET r == api_request(resp)
    IN  IF IsRaise(r) THEN r
        ELSE CASE op = "get_invoice" -> get_invoice_ret(r[2][1], r[2][2])
               [] op = "get_order" -> get_order_ret(r[2][1], r[2][2])
               [] op = "list_products" -> list_products_ret(r[2][1], r[2][2])
               [] op = "get_variants" -> get_variants_ret(r[2][1], r[2][2])
               [] op = "get_stock" -> r
               [] op = "append_stock" -> r


(* ---------------- what the handlers build from the data ---------------- *)
Text(s) == <<"text", s>>
Embed(title, fields) == <<"embed", title, fields>>

Min(a, b) == IF a < b THEN a ELSE b

\* the first of a sequence of evaluations that raises, or Ok of all the values
Collect(rs) ==
    IF \E i \in 1..Len(rs) : IsRaise(rs[i])
    THEN rs[CHOOSE i \in 1..Len(rs) :
               IsRaise(rs[i]) /\ \A k \in 1..(i - 1) : IsOk(rs[k])]
    ELSE Ok([i \in 1..Len(rs) |-> rs[i][2]])

\* "\n".join(deliverables[:10]) of invoice
PreviewLimit == 10

Preview(deliverables) ==
    CASE IsList(deliverables) ->
           LET cut == SubSeq(deliverables[2], 1, Min(PreviewLimit, Len(deliverables[2])))
           IN  IF \A i \in 1..Len(cut) : cut[i][1] = "str"
               THEN Ok([i \in 1..Len(cut) |-> cut[i][2]])
               ELSE Raise("TypeError")
      [] deliverables[1] = "str" -> Ok(<<deliverables[2]>>)
      [] OTHER -> Raise("TypeError")

\* invoice, from `if not data` on: what followup.send is given
invoice_render(invoice_id, data) ==
    IF ~Truthy(data) THEN Ok(Text("Invoice no encontrada"))
    ELSE IF ~IsDict(data) THEN Raise("AttributeError")
    ELSE LET fields == << <<"Email", Str(DictGet(data, "email", JStr("N/A"))[2])>>,
                          <<"Precio", Str(DictGet(data, "total_price", JStr("N/A"))[2])>>,
                          <<"Estado", Str(DictGet(data, "status", JStr("N/A"))[2])>>,
                          <<"Producto", Str(DictGet(data, "product_name", JStr("N/A"))[2])>> >>
             deliverables == DictGet(data, "deliverables", JList(<<>>))[2]
         IN  IF ~Truthy(deliverables) THEN Ok(Embed(<<"Invoice", invoice_id>>, fields))
             ELSE IF IsRaise(Preview(deliverables)) THEN Preview(deliverables)
             ELSE Ok(Embed(<<"Invoice", invoice_id>>,
                           Append(fields, <<"Keys / Deliverables", Preview(deliverables)[2]>>)))

\* order, from `if not data` on
order_render(order_id, data) ==
    IF ~Truthy(data) THEN Ok(Text("Pedido no encontrado"))
    ELSE IF ~IsDict(data) THEN Raise("AttributeError")
    ELSE Ok(Embed(<<"Order", order_id>>,
                  << <<"Email", Str(DictGet(data, "email", JStr("N/A"))[2])>>,
                     <<"Estado", Str(DictGet(data, "status", JStr("N/A"))[2])>>,
                     <<"Precio", Str(DictGet(data, "total_price", JStr("N/A"))[2])>> >>))

\* product_list, from `if not products` on
product_list_render(products) ==
    IF ~Truthy(products) THEN Ok(Text("No hay productos"))
    ELSE IF IsRaise(Iter(products)) THEN Iter(products)
    ELSE LET ps == Iter(products)[2]
             line(p) ==
                 IF IsRaise(Subscript(p, "name")) THEN Subscript(p, "name")
                 ELSE IF IsRaise(Subscript(p, "id")) THEN Subscript(p, "id")
                 ELSE Ok(<<Str(Subscript(p, "name")[2]), " - ID: ", Str(Subscript(p, "id")[2])>>)
             lines == Collect([i \in 1..Len(ps) |-> line(ps[i])])
         IN  IF IsRaise(lines) THEN lines ELSE Ok(<<"code", lines[2]>>)

\* the options of ProductSelect and of VariantSelect:
\* SelectOption(label=x["name"], value=str(x["id"])) for x in xs
SelectOptions(xs) ==
    IF IsRaise(Iter(xs)) THEN Iter(xs)
    ELSE LET es == Iter(xs)[2]
             option(x) ==
                 IF IsRaise(Subscript(x, "name")) THEN Subscript(x, "name")
                 ELSE IF IsRaise(Subscript(x, "id")) THEN Subscript(x, "id")
                 ELSE Ok([label |-> Subscript(x, "name")[2], value |-> Str(Subscript(x, "id")[2])])
         IN  Collect([i \in 1..Len(es) |-> option(es[i])])


(* ---------------- the text of the restock modal ---------------- *)
LineBreaks == {"\n", "\r"}
Whitespace == {" ", "\t", "\n", "\r"}

\* str.splitlines(): the text cut at \n, \r and \r\n; a final line break opens
\* no further line
RECURSIVE splitlines_from(_, _, _, _)
splitlines_from(s, i, cur, out) ==
    IF i > Len(s) THEN (IF cur = <<>> THEN out ELSE Append(out, cur))
    ELSE IF s[i] = "\r" /\ i < Len(s) /\ s[i + 1] = "\n"
         THEN splitlines_from(s, i + 2, <<>>, Append(out, cur))
    ELSE IF s[i] \in LineBreaks
         THEN splitlines_from(s, i + 1, <<>>, Append(out, cur))
    ELSE splitlines_from(s, i + 1, Append(cur, s[i]), out)

splitlines(s) == splitlines_from(s, 1, <<>>, <<>>)

\* str.strip(): leading and trailing whitespace removed
strip(x) ==
    LET keep == {i \in 1..Len(x) : x[i] \notin Whitespace}
    IN  IF keep = {} THEN <<>>
        ELSE SubSeq(x, CHOOSE i \in keep : \A k \in keep : i <= k,
                       CHOOSE i \in keep : \A k \in keep : k <= i)

\* the filter `if x` in place of `if x.strip()`
KeepLine_nonempty(x) == x # <<>>

\* items = [x for x in self.stock.value.splitlines() if x.strip()]
KeepLine(x) == strip(x) # <<>>

ParseItems(text) == SelectSeq(splitlines(text), KeepLine)

(* ---------------- state ---------------- *)
VARIABLES
    task,    \* slot -> the handler invocation running there (slot 0: a slash
             \* command; slot f > 0: the handler of restock flow f)
    panel,   \* whether the Stock Panel message with its Restock button is up
    comps,   \* flow -> the components of the flow that the user can act on
    input    \* the text in the modal's field (SpecLines)

vars == <<task, panel, comps, input>>

Flows == 1..MaxFlows
Slots == 0..MaxFlows

IdInputs == {"1", "2"}

IdleTask ==
    [kind |-> "idle", pc |-> "idle", op |-> "", loc |-> <<>>, trace |-> <<>>, call |-> <<>>]

NewTask(kind, loc) ==
    [kind |-> kind, pc |-> "run", op |-> "", loc |-> loc, trace |-> <<>>, call |-> <<>>]

NoComps == [pressed |-> FALSE, pmenu |-> <<>>, vmenus |-> {}, modal |-> {}]

\* interaction.response.defer(ephemeral=True)
Defer(t) == [t EXCEPT !.trace = Append(@, <<"defer">>)]

\* the coroutine reaches `await api_request(...)` inside op
Await(t, op, req) ==
    [t EXCEPT !.pc = "await", !.op = op, !.trace = Append(@, <<"request", req>>)]

\* the answer resp has come and op has returned ret (or raised)
Returned(t, resp) ==
    [t EXCEPT !.call = <<t.op, resp, OpReturn(t.op, resp)>>]

\* the handler's last statement: a message through the interaction
Done(t, how, content) ==
    [t EXCEPT !.pc = "done", !.op = "", !.trace = Append(@, <<how, content>>)]

\* an exception leaves the handler
Raised(t, r) ==
    [t EXCEPT !.pc = "raised", !.op = "", !.trace = Append(@, <<"raise", r[2]>>)]

Get(url) == Request("GET", url, JNone)

Init ==
    /\ task = [s \in Slots |-> IdleTask]
    /\ panel = FALSE
    /\ comps = [f \in Flows |-> NoComps]
    /\ input = <<>>

(* ---------------- COMMANDS ---------------- *)
\* invoice without its permission check
invoice_unchecked(s, admin, invoice_id) ==
    /\ task[s].pc = "idle"
    /\ task' = [task EXCEPT ![s] =
           Await(Defer(NewTask("invoice", [admin |-> admin, invoice_id |-> invoice_id])),
                 "get_invoice", Get(get_invoice_url(invoice_id)))]
    /\ UNCHANGED <<panel, comps, input>>

invoice(s, admin, invoice_id) ==
    /\ task[s].pc = "idle"
    /\ LET t == NewTask("invoice", [admin |-> admin, invoice_id |-> invoice_id])
       IN  task' = [task EXCEPT ![s] =
               IF ~admin THEN Done(t, "send_message", Text("No permiso"))
               ELSE Await(Defer(t), "get_invoice", Get(get_invoice_url(invoice_id)))]
    /\ UNCHANGED <<panel, comps, input>>

invoice_resume(s, resp) ==
    /\ task[s].kind = "invoice" /\ task[s].pc = "await"
    /\ LET t == Returned(task[s], resp)
             data == t.call[3]
         IN  task' = [task EXCEPT ![s] =
                 IF IsRaise(data) THEN Raised(t, data)
                 ELSE IF IsRaise(invoice_render(t.loc.invoice_id, data[2]))
                      THEN Raised(t, invoice_render(t.loc.invoice_id, data[2]))
                 ELSE Done(t, "followup", invoice_render(t.loc.invoice_id, data[2])[2])]
    /\ UNCHANGED <<panel, comps, input>>

panel_stock(s) ==
    /\ task[s].pc = "idle"
    /\ task' = [task EXCEPT ![s] =
           Done(NewTask("panel_stock", <<>>), "send_message", Embed(<<"Stock Panel">>, <<>>))]
    /\ panel' = TRUE
    /\ UNCHANGED <<comps, input>>

product_list(s) ==
    /\ task[s].pc = "idle"
    /\ task' = [task EXCEPT ![s] =
           Await(Defer(NewTask("product_list", <<>>)), "list_products", Get(list_products_url))]
    /\ UNCHANGED <<panel, comps, input>>

product_list_resume(s, resp) ==
    /\ task[s].kind = "product_list" /\ task[s].pc = "await"
    /\ LET t == Returned(task[s], resp)
             products == t.call[3]
         IN  task' = [task EXCEPT ![s] =
                 IF IsRaise(products) THEN Raised(t, products)
                 ELSE IF IsRaise(product_list_render(products[2]))
                      THEN Raised(t, product_list_render(products[2]))
                 ELSE Done(t, "followup", product_list_render(products[2])[2])]
    /\ UNCHANGED <<panel, comps, input>>

order(s, order_id) ==
    /\ task[s].pc = "idle"
    /\ task' = [task EXCEPT ![s] =
           Await(Defer(NewTask("order", [order_id |-> order_id])),
                 "get_order", Get(get_order_url(order_id)))]
    /\ UNCHANGED <<panel, comps, input>>

order_resume(s, resp) ==
    /\ task[s].kind = "order" /\ task[s].pc = "await"
    /\ LET t == Returned(task[s], resp)
             data == t.call[3]
         IN  task' = [task EXCEPT ![s] =
                 IF IsRaise(data) THEN Raised(t, data)
                 ELSE IF IsRaise(order_render(t.loc.order_id, data[2]))
                      THEN Raised(t, order_render(t.loc.order_id, data[2]))
                 ELSE Done(t, "followup", order_render(t.loc.order_id, data[2])[2])]
    /\ UNCHANGED <<panel, comps, input>>


\* f"Stock disponible: {amount}" and f"Added {len(items)} items"
Counted(what, n) == <<"text", what, n>>

\* quick_stock at the head of `for v in variants`: the loop is over and stock
\* answers, or the next get_stock is awaited
quick_stock_next(t) ==
    IF Len(t.loc.variants) = 0
    THEN Done(t, "followup", Counted("Stock disponible", t.loc.total))
    ELSE LET id == Subscript(Head(t.loc.variants), "id")
         IN  IF IsRaise(id) THEN Raised(t, id)
             ELSE Await(t, "get_stock", Get(get_stock_url(t.loc.product_id, Str(id[2]))))

stock(s, product_id) ==
    /\ task[s].pc = "idle"
    /\ task' = [task EXCEPT ![s] =
           Await(Defer(NewTask("stock", [product_id |-> product_id, variants |-> <<>>,
                                         total |-> 0, fetched |-> <<>>])),
                 "get_variants", Get(get_variants_url(product_id)))]
    /\ UNCHANGED <<panel, comps, input>>

\* quick_stock after `variants = await get_variants(pid)`
stock_variants(s, resp) ==
    /\ task[s].kind = "stock" /\ task[s].pc = "await" /\ task[s].op = "get_variants"
    /\ LET t == Returned(task[s], resp)
             variants == t.call[3]
         IN  task' = [task EXCEPT ![s] =
                 IF IsRaise(variants) THEN Raised(t, variants)
                 ELSE IF IsRaise(Iter(variants[2])) THEN Raised(t, Iter(variants[2]))
                 ELSE quick_stock_next([t EXCEPT !.loc.variants = Iter(variants[2])[2]])]
    /\ UNCHANGED <<panel, comps, input>>

\* quick_stock after `_, js = await get_stock(pid, v["id"])`
stock_fetch(s, resp) ==
    /\ task[s].kind = "stock" /\ task[s].pc = "await" /\ task[s].op = "get_stock"
    /\ LET t == Returned(task[s], resp)
             got == t.call[3]
         IN  task' = [task EXCEPT ![s] =
                 IF IsRaise(got) THEN Raised(t, got)
                 ELSE quick_stock_next(
                        [t EXCEPT !.loc.total = @ + StockCount(got[2][1], got[2][2]),
                                  !.loc.variants = Tail(@),
                                  !.loc.fetched = Append(@, got[2])])]
    /\ UNCHANGED <<panel, comps, input>>

\* the event loop drops a handler that has returned or raised
Leave(s) ==
    /\ task[s].pc \in {"done", "raised"}
    /\ task' = [task EXCEPT ![s] = IdleTask]
    /\ UNCHANGED <<panel, comps, input>>

(* ---------------- UI COMPONENTS ---------------- *)
\* RestockModal.__init__
RestockModal(pid, vid) == [pid |-> pid, vid |-> vid]

\* VariantSelect.__init__
VariantSelect(pid, variants) ==
    IF IsRaise(SelectOptions(variants)) THEN SelectOptions(variants)
    ELSE Ok([pid |-> pid, options |-> SelectOptions(variants)[2]])

\* ProductSelect.__init__
ProductSelect(products) == SelectOptions(products)

\* a select that reports its first option whatever the user chose
Selected_first(options, i) == options[1].value

\* self.values[0] of a select whose i-th option the user chose
Selected(options, i) == options[i].value

\* StockPanel.restock up to `await list_products()`: the press opens flow f
restock(f) ==
    /\ panel
    /\ task[f].pc = "idle"
    /\ ~comps[f].pressed
    /\ \A g \in Flows : g < f => comps[g].pressed
    /\ task' = [task EXCEPT ![f] =
           Await(NewTask("restock", <<>>), "list_products", Get(list_products_url))]
    /\ comps' = [comps EXCEPT ![f].pressed = TRUE]
    /\ UNCHANGED <<panel, input>>

restock_resume(f, resp) ==
    /\ task[f].kind = "restock" /\ task[f].pc = "await"
    /\ LET t == Returned(task[f], resp)
             products == t.call[3]
             menu == IF IsRaise(products) THEN products ELSE ProductSelect(products[2])
         IN  /\ task' = [task EXCEPT ![f] =
                    IF IsRaise(menu) THEN Raised(t, menu)
                    ELSE Done(t, "send_message", Text("Select Product"))]
             /\ comps' = [comps EXCEPT ![f].pmenu = IF IsRaise(menu) THEN @ ELSE menu[2]]
    /\ UNCHANGED <<panel, input>>

\* ProductSelect.callback up to `await get_variants(pid)`; chose is what the
\* user picked in the menu
ProductSelect_callback(f, i) ==
    /\ task[f].pc = "idle"
    /\ i \in 1..Len(comps[f].pmenu)
    /\ LET pid == Selected(comps[f].pmenu, i)
       IN  task' = [task EXCEPT ![f] =
               Await(NewTask("ProductSelect", [pid |-> pid, chose |-> comps[f].pmenu[i].value]),
                     "get_variants", Get(get_variants_url(pid)))]
    /\ UNCHANGED <<panel, comps, input>>

ProductSelect_resume(f, resp) ==
    /\ task[f].kind = "ProductSelect" /\ task[f].pc = "await"
    /\ LET t == Returned(task[f], resp)
             variants == t.call[3]
             menu == IF IsRaise(variants) THEN variants
                     ELSE VariantSelect(t.loc.pid, variants[2])
         IN  /\ task' = [task EXCEPT ![f] =
                    IF IsRaise(menu) THEN Raised(t, menu)
                    ELSE Done(t, "send_message", Text("Select Variant"))]
             /\ comps' = [comps EXCEPT ![f].vmenus =
                    IF IsRaise(menu) \/ Len(menu[2].options) = 0 THEN @
                    ELSE @ \cup {[menu |-> menu[2], chose |-> t.loc.chose]}]
    /\ UNCHANGED <<panel, input>>

\* VariantSelect.callback: no await; the modal it sends replaces the one the
\* user had open
VariantSelect_callback(f, m, i) ==
    /\ task[f].pc = "idle"
    /\ m \in comps[f].vmenus
    /\ i \in 1..Len(m.menu.options)
    /\ LET vid == Selected(m.menu.options, i)
           modal == RestockModal(m.menu.pid, vid)
       IN  /\ task' = [task EXCEPT ![f] =
                  Done(NewTask("VariantSelect", [vid |-> vid]), "send_modal", modal)]
           /\ comps' = [comps EXCEPT ![f].modal =
                  {[modal |-> modal, chose |-> <<m.chose, m.menu.options[i].value>>]}]
    /\ UNCHANGED <<panel, input>>

\* RestockModal.on_submit up to `await append_stock(...)`; submitting closes
\* the modal
on_submit(f, text) ==
    /\ task[f].pc = "idle"
    /\ \E m \in comps[f].modal :
         LET items == ParseItems(text)
         IN  task' = [task EXCEPT ![f] =
                 Await(NewTask("on_submit", [text |-> text, items |-> items,
                                             modal |-> m.modal, chose |-> m.chose]),
                       "append_stock",
                       append_stock_request(m.modal.pid, m.modal.vid, items))]
    /\ comps' = [comps EXCEPT ![f].modal = {}]
    /\ UNCHANGED <<panel, input>>

\* on_submit confirming only an append that the API accepted
on_submit_resume_checked(f, resp) ==
    /\ task[f].kind = "on_submit" /\ task[f].pc = "await"
    /\ LET t == Returned(task[f], resp)
       IN  task' = [task EXCEPT ![f] =
               IF IsRaise(t.call[3]) THEN Raised(t, t.call[3])
               ELSE IF t.call[3][2][1] # 200 THEN Done(t, "send_message", Text("Error"))
               ELSE Done(t, "send_message", Counted("Added items", Len(t.loc.items)))]
    /\ UNCHANGED <<panel, comps, input>>

on_submit_resume(f, resp) ==
    /\ task[f].kind = "on_submit" /\ task[f].pc = "await"
    /\ LET t == Returned(task[f], resp)
         IN  task' = [task EXCEPT ![f] =
                 IF IsRaise(t.call[3]) THEN Raised(t, t.call[3])
                 ELSE Done(t, "send_message", Counted("Added items", Len(t.loc.items)))]
    /\ UNCHANGED <<panel, comps, input>>


(* ---------------- specifications ---------------- *)
\* One slash command at a time, against every answer of the API.
Next ==
    \/ \E admin \in BOOLEAN, id \in IdInputs : invoice(0, admin, id)
    \/ \E resp \in Responses : invoice_resume(0, resp)
    \/ panel_stock(0)
    \/ product_list(0)
    \/ \E resp \in Responses : product_list_resume(0, resp)
    \/ \E id \in IdInputs : stock(0, id)
    \/ \E resp \in Responses : stock_variants(0, resp)
    \/ \E resp \in Responses : stock_fetch(0, resp)
    \/ \E id \in IdInputs : order(0, id)
    \/ \E resp \in Responses : order_resume(0, resp)
    \/ Leave(0)

Spec == Init /\ [][Next]_vars

\* The restock flows, their handlers interleaved on the event loop: a flow
\* has one handler running at a time, flows run side by side.  The panel is
\* up, and the API answers with the product list, with a product, with an
\* error status, or not at all.
ExampleText ==
    <<"K", "E", "Y", "1", "\n", "\n", "K", "E", "Y", "2", "\n",
      " ", " ", " ", "\n", "K", "E", "Y", "3">>

FlowTexts == {ExampleText}

FlowResponses ==
    { TransportError,
      Reply(404, JDict(<< <<"message", JStr("Not Found")>> >>)),
      Reply(200, JDict(<< <<"data", JList(<<Alpha, Beta>>)>> >>)),
      Reply(200, JDict(<< <<"data", Beta>> >>)) }

InitFlow ==
    /\ task = [s \in Slots |-> IdleTask]
    /\ panel = TRUE
    /\ comps = [f \in Flows |-> NoComps]
    /\ input = <<>>

NextFlow ==
    \/ \E f \in Flows : restock(f)
    \/ \E f \in Flows : \E resp \in FlowResponses : restock_resume(f, resp)
    \/ \E f \in Flows : \E i \in 1..Len(comps[f].pmenu) : ProductSelect_callback(f, i)
    \/ \E f \in Flows : \E resp \in FlowResponses : ProductSelect_resume(f, resp)
    \/ \E f \in Flows : \E m \in comps[f].vmenus :
         \E i \in 1..Len(m.menu.options) : VariantSelect_callback(f, m, i)
    \/ \E f \in Flows : \E text \in FlowTexts : on_submit(f, text)
    \/ \E f \in Flows : \E resp \in FlowResponses : on_submit_resume(f, resp)
    \/ \E f \in Flows : Leave(f)

SpecFlow == InitFlow /\ [][NextFlow]_vars

\* One submission of the modal, for every text of 1 to MaxLen characters (the
\* field is required) and every answer of the API.
Chars == {"K", "1", " ", "\n", "\r"}

Texts == UNION {[1..n -> Chars] : n \in 1..MaxLen} \cup {ExampleText}

InitLines ==
    /\ task = [s \in Slots |-> IdleTask]
    /\ panel = TRUE
    /\ input \in Texts
    /\ \E pid \in {"1", "2"}, vid \in {"5", "6"} :
         comps = [f \in Flows |->
                    IF f # 1 THEN NoComps
                    ELSE [pressed |-> TRUE,
                          pmenu |-> ProductSelect(JList(<<Alpha, Beta>>))[2],
                          vmenus |-> {[menu |-> VariantSelect(pid, Lookup(Beta, "variants"))[2],
                                       chose |-> pid]},
                          modal |-> {[modal |-> RestockModal(pid, vid),
                                      chose |-> <<pid, vid>>]}]]

NextLines ==
    \/ on_submit(1, input)
    \/ \E resp \in Responses : on_submit_resume(1, resp)

SpecLines == InitLines /\ [][NextLines]_vars


(* ---------------- properties ---------------- *)
\* the places of the API calls in a handler's trace, and what it said
RequestAt(t) == {i \in 1..Len(t.trace) : t.trace[i][1] = "request"}
Started(t) == t.pc # "idle"
IsReply(resp) == resp[1] = "reply"
Last(t) == t.trace[Len(t.trace)]

\* C1: whenever the API answers a query operation with a status other than
\* 200 or with no body, get_invoice and get_order return None, list_products
\* and get_variants return [], and none of them raises.
C1_QueryOpsReturnEmpty ==
    \A s \in Slots :
        LET c == task[s].call
        IN  (c # <<>> /\ IsReply(c[2])
               /\ (c[2][2] # 200 \/ ParseJson(c[2][3]) = JNone)
               /\ c[1] \in {"get_invoice", "get_order", "list_products", "get_variants"})
            => /\ IsOk(c[3])
               /\ c[1] \in {"get_invoice", "get_order"} => c[3][2] = JNone
               /\ c[1] \in {"list_products", "get_variants"} => c[3][2] = JList(<<>>)

\* C2: an invoice command of a caller who is no administrator has issued no
\* HTTP request at any point, and has answered "No permiso" and nothing else;
\* an invoice command that issued a request runs for an administrator.
C2_NonAdminInvoiceNoRequest ==
    \A s \in Slots :
        task[s].kind = "invoice" =>
            /\ ~task[s].loc.admin =>
                   /\ RequestAt(task[s]) = {}
                   /\ task[s].pc = "done"
                   /\ task[s].trace = << <<"send_message", Text("No permiso")>> >>
            /\ RequestAt(task[s]) # {} => task[s].loc.admin

C2_Witness ==
    /\ task[0].kind = "invoice" /\ ~task[0].loc.admin /\ task[0].pc = "done"

\* C3: a submission of the restock form issues exactly one request, the
\* append of the whole batch (the empty batch too), before anything else;
\* once the API has answered it, with any status and any body, the handler
\* ends with the confirmation carrying the number of items of the batch.
C3_SubmitAlwaysConfirms ==
    \A s \in Slots :
        LET t == task[s]
        IN  (t.kind = "on_submit" /\ Started(t)) =>
              /\ RequestAt(t) = {1}
              /\ Len(t.trace[1][2].json[2][1][2][2]) = Len(ParseItems(t.loc.text))
              /\ (t.call # <<>> /\ IsReply(t.call[2])) =>
                    /\ t.pc = "done"
                    /\ t.trace = <<t.trace[1],
                                   <<"send_message",
                                     Counted("Added items", Len(ParseItems(t.loc.text)))>> >>

C3_Witness ==
    /\ task[1].kind = "on_submit" /\ task[1].pc = "done"
    /\ IsReply(task[1].call[2]) /\ task[1].call[2][2] = 404
    /\ task[1].call[2][3] = NonJson
    /\ Len(task[1].loc.items) = 0
    /\ Last(task[1]) = <<"send_message", Counted("Added items", 0)>>

\* the maximal runs of text without a line break, as <<first, last>>
LineRuns(text) ==
    {r \in (1..Len(text)) \X (1..Len(text)) :
        /\ r[1] <= r[2]
        /\ \A k \in r[1]..r[2] : text[k] \notin LineBreaks
        /\ r[1] = 1 \/ text[r[1] - 1] \in LineBreaks
        /\ r[2] = Len(text) \/ text[r[2] + 1] \in LineBreaks}

KeptRuns(text) ==
    {r \in LineRuns(text) : \E k \in r[1]..r[2] : text[k] \notin Whitespace}

\* the items in the body of the request a submission issued
SentItems(t) == [i \in 1..Len(t.trace[1][2].json[2][1][2][2]) |->
                    t.trace[1][2].json[2][1][2][2][i][2]]

\* C4: the items sent by a submission are the maximal runs of the text free
\* of line breaks that hold a character other than whitespace, each whole
\* and in the order of the text, and the count shown is their number;
\* "KEY1\n\nKEY2\n   \nKEY3" gives KEY1, KEY2, KEY3.
C4_ItemsAreNonBlankLines ==
    \A s \in Slots :
        LET t == task[s]
        IN  (t.kind = "on_submit" /\ Started(t)) =>
              /\ Len(SentItems(t)) = Cardinality(KeptRuns(t.loc.text))
              /\ \A n \in 1..Len(SentItems(t)) :
                    \E r \in KeptRuns(t.loc.text) :
                        /\ SentItems(t)[n] = SubSeq(t.loc.text, r[1], r[2])
                        /\ Cardinality({q \in KeptRuns(t.loc.text) : q[1] < r[1]}) = n - 1
              /\ t.pc = "done" =>
                    Last(t) = <<"send_message", Counted("Added items", Len(SentItems(t)))>>
              /\ t.loc.text = ExampleText =>
                    SentItems(t) = << <<"K", "E", "Y", "1">>, <<"K", "E", "Y", "2">>,
                                      <<"K", "E", "Y", "3">> >>

C4_Witness ==
    /\ task[1].kind = "on_submit" /\ task[1].pc = "done"
    /\ task[1].loc.text = ExampleText
    /\ Last(task[1]) = <<"send_message", Counted("Added items", 3)>>

\* the deliverables of the fetches answered 200 with a list
RECURSIVE SumCounts(_)
SumCounts(fetched) ==
    IF fetched = <<>> THEN 0
    ELSE (IF Head(fetched)[1] = 200 /\ IsList(Head(fetched)[2])
          THEN Len(Head(fetched)[2][2]) ELSE 0) + SumCounts(Tail(fetched))

\* C5: the amount stock answers with is the sum, over the variants fetched,
\* of the number of deliverables of the variant, a fetch answered with a
\* status other than 200 or with a body that is no list counting zero.
C5_StockIsSumOfSuccessfulFetches ==
    \A s \in Slots :
        (task[s].kind = "stock" /\ task[s].pc = "done") =>
            Last(task[s]) =
                <<"followup", Counted("Stock disponible", SumCounts(task[s].loc.fetched))>>

\* C6 as claimed: the request of append_stock carries the items under the
\* field `items`.
C6_BodyFieldItems ==
    \A s \in Slots :
        (task[s].kind = "on_submit" /\ Started(task[s])) =>
            HasKey(task[s].trace[1][2].json, "items")

\* C6, amended: the request of append_stock is a PUT to
\* /products/{pid}/deliverables/append/{vid} of the shop, with the bearer
\* token in its Authorization header and a JSON body whose one field,
\* `deliverables`, holds the items given, in their order.
C6_AppendRequestShape ==
    \A s \in Slots :
        LET t == task[s]
        IN  (t.kind = "on_submit" /\ Started(t)) =>
              LET req == t.trace[1][2]
              IN  /\ req.method = "PUT"
                  /\ req.url = <<"https://api.sellauth.com/v1/shops", SHOP_ID, "products",
                                 t.loc.modal.pid, "deliverables", "append", t.loc.modal.vid>>
                  /\ req.headers = <<"Authorization", <<"Bearer", API_KEY>>>>
                  /\ IsDict(req.json)
                  /\ Len(req.json[2]) = 1
                  /\ req.json[2][1][1] = "deliverables"
                  /\ IsList(req.json[2][1][2])
                  /\ Len(req.json[2][1][2][2]) = Len(t.loc.items)
                  /\ \A i \in 1..Len(t.loc.items) :
                        req.json[2][1][2][2][i] = <<"str", t.loc.items[i]>>

C6_Witness ==
    /\ task[1].kind = "on_submit" /\ task[1].pc = "await"
    /\ Len(task[1].loc.items) = 2
    /\ task[1].loc.modal.pid = "1" /\ task[1].loc.modal.vid = "6"

\* C7: a handler whose API call failed in transport, or was answered with a
\* body that is no JSON, does not end in an exception: it ends with a plain
\* text message to the user.
C7_TransportFailureAnswered ==
    \A s \in Slots :
        LET t == task[s]
        IN  (t.call # <<>> /\ (t.call[2] = TransportError
                                \/ (IsReply(t.call[2]) /\ t.call[2][3] = NonJson))) =>
              /\ t.pc # "raised"
              /\ t.pc = "done" => Last(t)[2][1] = "text"

\* C8: invoice (for an administrator) and order, answered with a status
\* other than 200 and any body, end with their not-found message.
C8_NotFoundOnErrorStatus ==
    \A s \in Slots :
        LET t == task[s]
        IN  (t.kind \in {"invoice", "order"} /\ t.call # <<>>
               /\ IsReply(t.call[2]) /\ t.call[2][2] # 200) =>
              /\ t.pc = "done"
              /\ Last(t) = <<"followup",
                             Text(IF t.kind = "invoice" THEN "Invoice no encontrada"
                                  ELSE "Pedido no encontrado")>>

\* C9: every API call of a handler comes after the handler has acknowledged
\* the interaction.
C9_AcknowledgedBeforeApiCall ==
    \A s \in Slots :
        \A i \in RequestAt(task[s]) :
            task[s].kind # "on_submit" =>
                \E k \in 1..(i - 1) : task[s].trace[k][1] = "defer"

\* C10: in every flow, the variant menus and the modal carry the product and
\* the variant that the user chose in that flow, an append is requested only
\* by a form submission, and it goes to the (product, variant) pair chosen
\* in the flow of the form, whatever the other flows do meanwhile.
C10_AppendTargetsOwnSelection ==
    \A f \in Flows :
        /\ \A m \in comps[f].vmenus : m.menu.pid = m.chose
        /\ \A m \in comps[f].modal :
              m.modal.pid = m.chose[1] /\ m.modal.vid = m.chose[2]
        /\ \A i \in RequestAt(task[f]) :
              task[f].trace[i][2].method = "PUT" =>
                  /\ task[f].kind = "on_submit"
                  /\ task[f].trace[i][2].url =
                         append_stock_url(task[f].loc.chose[1], task[f].loc.chose[2])

C10_Witness ==
    /\ task[1].kind = "on_submit" /\ task[1].pc = "await"
    /\ task[2].kind = "on_submit" /\ task[2].pc = "await"
    /\ task[1].loc.chose = <<"1", "5">>
    /\ task[2].loc.chose = <<"2", "6">>

====
